---- MODULE Spec2Model ----
(***************************************************************************)
(* Model of UltrasoundProcessing.py: the recording directory (png frames   *)
(* and data.txt), the in-memory Frame Set / ledger / candidate list, the   *)
(* operations-enabled gate and the handlers the event loop dispatches.     *)
(*                                                                         *)
(* A file name "<seq>-<ts>.png" is the record [seq, ts]; a ledger row      *)
(* "<seq>-<ts>,<f1>,...\n" is a record whose seq/ts are its leading field.  *)
(* An image is a grid (sequence of rows of pixel values), each cell        *)
(* standing for a block of pixels large enough for structural_similarity.  *)
(* Ledger rows are taken to hold all the fields update_data_file assigns.  *)
(* An uncaught Python exception leaves the event loop: pc = "crashed",    *)
(* nothing more happens.                                                   *)
(***************************************************************************)
EXTENDS Integers, Sequences, FiniteSets, TLC

VARIABLES
    files,              \* disk: png name -> grayscale grid
    datatxt,            \* disk: rows of data.txt
    names,              \* self.names
    frames,             \* self.frames (3-channel grids)
    data,               \* self.data
    dataAsLists,        \* self.data holds split lists (after update_data_file)
    index,              \* self.index
    duplicates,         \* self.duplicates: sequence of <<earlier, later>> names
    enable_operations,  \* self.enable_operations
    roi,                \* the four ROI input fields
    reducedRoi,         \* the 'Reduced ROI' checkbox
    pc,                 \* position of the event loop / running handler
    pre,                \* history: state at the dispatch of the last event
    last                \* history: outcome of the last handler step of interest

vars == <<files, datatxt, names, frames, data, dataAsLists, index, duplicates,
          enable_operations, roi, reducedRoi, pc, pre, last>>

\* Largest number of png files in the recording directory.
MaxFrames == 4

\* check_for_duplicates(self, window=2): the only value the event loop uses.
CheckWindow == 2

\* The largest window given to check_for_duplicates.
MaxWindow == 3

\* Default texts of the '-INP-HEIGHT-' and '-INP-WIDTH-' inputs.
ScanHeightMm == 150
ScanWidthMm == 150

Min(a, b) == IF a < b THEN a ELSE b

(***************************************************************************)
(* Images                                                                  *)
(***************************************************************************)
\* The grayscale frames a recording may hold: two 2x2 frames that differ
\* only in their left column, and a narrower 2x1 frame.
ImgA == << <<0, 0>>, <<0, 0>> >>
ImgB == << <<255, 0>>, <<255, 0>> >>
ImgC == << <<255>>, <<255>> >>
Images == {ImgA, ImgB, ImgC}
UniformImages == {ImgA, ImgB}

Height(img) == Len(img)
Width(img) == IF Len(img) = 0 THEN 0 ELSE Len(img[1])
IsEmptyNever(img) == FALSE
IsEmpty(img) == Height(img) = 0 \/ Width(img) = 0

\* img[top:bottom, left:right] for non-negative bounds (numpy clamps them).
Slice(img, r) ==
    LET rows == SubSeq(img, r.top + 1, Min(r.bottom, Height(img)))
    IN  [k \in 1..Len(rows) |-> SubSeq(rows[k], r.left + 1, Min(r.right, Width(img)))]

\* cv2.cvtColor(frame, cv2.COLOR_GRAY2RGB): the value replicated in 3 channels.
Gray2Rgb(img) == [y \in 1..Height(img) |-> [x \in 1..Width(img) |->
                    <<img[y][x], img[y][x], img[y][x]>>]]

\* cv2.cvtColor(frame, cv2.COLOR_BGR2GRAY): fixed-point weighted sum.
Bgr2Gray(img) == [y \in 1..Height(img) |-> [x \in 1..Width(img) |->
                    (img[y][x][1] * 1868 + img[y][x][2] * 9617
                        + img[y][x][3] * 4899 + 8192) \div 16384]]

\* cv2.flip(img, 0): rows reversed.
Flip(img) == [y \in 1..Height(img) |-> img[Height(img) + 1 - y]]

(***************************************************************************)
(* Names and rows                                                          *)
(***************************************************************************)
\* name.split('.', 1)[0] and row.split(',', 1)[0]: the text "<seq>-<ts>".
NameStem(name) == <<name.seq, name.ts>>
RowStem(row) == <<row.seq, row.ts>>

\* f"{i}-{name.split('-', 1)[1]}" and f"{i}-{row.split('-', 1)[1]}".
RenumberedWithStamp(i, x) == [x EXCEPT !.seq = i, !.ts = 10 * i]
Renumbered(i, x) == [x EXCEPT !.seq = i]

\* Plain string order of the names, for numbers of up to two digits: '-' sorts
\* before every digit, so "1-" < "10-" < "9-".
NatLessLexical(a, b) ==
    LET digits(n) == IF n < 10 THEN <<n>> ELSE <<n \div 10, n % 10>>
        da == digits(a.seq)
        db == digits(b.seq)
    IN  \/ da[1] < db[1]
        \/ /\ da[1] = db[1]
           /\ \/ Len(da) < Len(db)
              \/ Len(da) = 2 /\ Len(db) = 2 /\ da[2] < db[2]
              \/ da = db /\ a.ts < b.ts

\* natsort key of "<seq>-<ts>.png": the numbers compared as numbers.
NatLess(a, b) == a.seq < b.seq \/ (a.seq = b.seq /\ a.ts < b.ts)

RECURSIVE NatSorted(_)
NatSorted(S) ==
    IF S = {} THEN <<>>
    ELSE LET m == CHOOSE a \in S : \A b \in S \ {a} : NatLess(a, b)
         IN  <<m>> \o NatSorted(S \ {m})

\* [x for x in natsorted(os.listdir(path)) if x.split('.')[-1] == 'png']
ListPng(fs) == NatSorted(DOMAIN fs)

Range(s) == {s[k] : k \in 1..Len(s)}

\* The ROI rectangles a user may type: the right column (outside the narrow
\* frame), an empty rectangle (top >= bottom) and a text that is no integer.
RoiRight == [ok |-> TRUE, top |-> 0, bottom |-> 2, left |-> 1, right |-> 2]
RoiEmpty == [ok |-> TRUE, top |-> 1, bottom |-> 1, left |-> 0, right |-> 2]
RoiNoInt == [ok |-> FALSE, top |-> 0, bottom |-> 0, left |-> 0, right |-> 0]
Rois == {RoiRight, RoiEmpty, RoiNoInt}

\* CLIP_PIXELS, the default texts of the ROI inputs: a rectangle inside the frame.
DefaultRoi == RoiRight

(***************************************************************************)
(* load_frames                                                             *)
(***************************************************************************)
LoadedFrames(fs, nm) == [k \in 1..Len(nm) |-> Gray2Rgb(fs[nm[k]])]

\* names[-1] raises IndexError on an empty directory; a zero duration raises
\* ZeroDivisionError in the FPS text.
LoadSucceeds(nm) == Len(nm) > 0 /\ nm[Len(nm)].ts - nm[1].ts # 0

LoadFramesBodyKeepingLedger(okPc, failPc) ==
    LET nm == ListPng(files)
    IN  /\ names' = nm
        /\ frames' = LoadedFrames(files, nm)
        /\ UNCHANGED <<data, dataAsLists>>
        /\ index' = 0
        /\ duplicates' = <<>>
        /\ IF LoadSucceeds(nm)
           THEN enable_operations' = TRUE /\ pc' = okPc
           ELSE enable_operations' = enable_operations /\ pc' = failPc

\* The body of load_frames: on success the gate opens and control goes to
\* okPc; an exception leaves the gate alone and control goes to failPc.
LoadFramesBody(okPc, failPc) ==
    LET nm == ListPng(files)
    IN  /\ names' = nm
        /\ frames' = LoadedFrames(files, nm)
        /\ data' = <<>>
        /\ dataAsLists' = FALSE
        /\ index' = 0
        /\ duplicates' = <<>>
        /\ IF LoadSucceeds(nm)
           THEN enable_operations' = TRUE /\ pc' = okPc
           ELSE enable_operations' = enable_operations /\ pc' = failPc

(***************************************************************************)
(* check_for_duplicates                                                    *)
(***************************************************************************)
\* structural_similarity raises ValueError on frames of different shapes or
\* on frames smaller than its window (an empty slice).
Comparable(a, b) ==
    /\ ~IsEmpty(a) /\ ~IsEmpty(b)
    /\ Height(a) = Height(b) /\ Width(a) = Width(b)

\* A comparison that scores every pair of frames as identical.
PerfectMatchAlways(a, b) == TRUE

\* score == 1: the two single-channel grids are identical.
PerfectMatch(a, b) == a = b

\* img = cvtColor(frame, BGR2GRAY); if reduced ROI: img = img[top:bottom, left:right]
Prepared(frame, useRoi, r) ==
    IF useRoi THEN Slice(Bgr2Gray(frame), r) ELSE Bgr2Gray(frame)

\* The inner loop without its break: the last matching position wins.
RECURSIVE ScanWindowLastMatch(_, _, _, _, _, _)
ScanWindowLastMatch(fr, i, j, hi, useRoi, r) ==
    IF j > hi THEN 0
    ELSE LET a == Prepared(fr[i], useRoi, r)
             b == Prepared(fr[j], useRoi, r)
             rest == ScanWindowLastMatch(fr, i, j + 1, hi, useRoi, r)
         IN  IF ~Comparable(a, b) THEN -1
             ELSE IF rest # 0 THEN rest
             ELSE IF PerfectMatch(a, b) THEN j
             ELSE 0

\* The inner loop for frame i, from position j up to hi: the first matching
\* position, 0 when none matches, -1 when a comparison raises.
RECURSIVE ScanWindow(_, _, _, _, _, _)
ScanWindow(fr, i, j, hi, useRoi, r) ==
    IF j > hi THEN 0
    ELSE LET a == Prepared(fr[i], useRoi, r)
             b == Prepared(fr[j], useRoi, r)
         IN  IF ~Comparable(a, b) THEN -1
             ELSE IF PerfectMatch(a, b) THEN j
             ELSE ScanWindow(fr, i, j + 1, hi, useRoi, r)

\* Last position compared, were the window not applied.
WindowEndWholeSet(i, w, n) == n

\* Last position compared with frame i: j in i+1..i+window with j < len(names).
WindowEnd(i, w, n) == Min(i + w, n)

\* The candidate list, were it not reset before the scan.
ResetDuplicatesKept(old) == old

\* with open(data.txt) as file: self.data = file.readlines(), were it skipped.
ReadLinesSkipped(rows, old) == old

\* with open(data.txt) as file: self.data = file.readlines()
ReadLines(rows, old) == rows

\* duplicates = [] before the scan.
ResetDuplicates(old) == <<>>

\* The outer loop from frame i on; acc is self.duplicates so far.
RECURSIVE DetectFrom(_, _, _, _, _, _, _)
DetectFrom(fr, nm, i, w, useRoi, r, acc) ==
    IF i > Len(fr) - 1 THEN [ok |-> TRUE, dups |-> acc]
    ELSE LET j == ScanWindow(fr, i, i + 1, WindowEnd(i, w, Len(nm)), useRoi, r)
         IN  IF j = -1 THEN [ok |-> FALSE, dups |-> acc]
             ELSE DetectFrom(fr, nm, i + 1, w, useRoi, r,
                             IF j = 0 THEN acc ELSE Append(acc, <<nm[i], nm[j]>>))

Detect(fr, nm, w, useRoi, r, old) ==
    DetectFrom(fr, nm, 1, w, useRoi, r, ResetDuplicates(old))

(***************************************************************************)
(* update_data_file                                                        *)
(***************************************************************************)
\* values[11], values[12] = frame width, height; values[14], values[15] = the
\* scan height and width inputs; the leading field and the rest are kept.
UpdatedRowTransposed(row, frame0) ==
    [row EXCEPT !.width = Height(frame0), !.height = Width(frame0),
                !.scanh = ScanHeightMm, !.scanw = ScanWidthMm]

UpdatedRow(row, frame0) ==
    [row EXCEPT !.width = Width(frame0), !.height = Height(frame0),
                !.scanh = ScanHeightMm, !.scanw = ScanWidthMm]

UpdatedRows(rows, frame0) == [k \in 1..Len(rows) |-> UpdatedRow(rows[k], frame0)]

\* self.frames[0] raises IndexError when no frame is loaded.
UpdateSucceeds == Len(frames) > 0

\* The body of update_data_file: data.txt read, every row rewritten, written back.
UpdateDataFileBody ==
    /\ data' = UpdatedRows(datatxt, frames[1])
    /\ dataAsLists' = (Len(datatxt) > 0)
    /\ datatxt' = UpdatedRows(datatxt, frames[1])

(***************************************************************************)
(* remove_duplicates                                                       *)
(***************************************************************************)
\* The test on the candidate list, were it dropped.
HasDuplicatesAlways(dups) == TRUE

\* len(self.duplicates) > 0: the event loop's test and the handler's own.
HasDuplicates(dups) == Len(dups) > 0

\* os.remove, were it to leave the file.
WithoutNothing(fs, name) == fs

\* data.remove(row), were it to leave the row.
RemoveRowKept(d, m) == d

\* data.remove(row)
RemoveRow(d, m) == [k \in 1..(Len(d) - 1) |-> IF k < m THEN d[k] ELSE d[k + 1]]

\* os.remove(remove_path)
Without(fs, name) == [n \in (DOMAIN fs) \ {name} |-> fs[n]]
RemoveAt(s, m) == [k \in 1..(Len(s) - 1) |-> IF k < m THEN s[k] ELSE s[k + 1]]

\* for row in self.data: if row.split(',', 1)[0] == duplicate[1].split('.', 1)[0]
\* The position of the first such row, 0 when the loop ends without one.
MatchingRow(d, later) ==
    IF \E m \in 1..Len(d) : RowStem(d[m]) = NameStem(later)
    THEN CHOOSE m \in 1..Len(d) :
            /\ RowStem(d[m]) = NameStem(later)
            /\ \A q \in 1..(m - 1) : RowStem(d[q]) # NameStem(later)
    ELSE 0

\* The deletion loop from candidate k on: os.remove of the later file and
\* data.remove of its row; os.remove raises when the file is not there.
RECURSIVE DeleteLoop(_, _, _, _)
DeleteLoop(dups, k, fs, d) ==
    IF k > Len(dups) THEN [ok |-> TRUE, files |-> fs, data |-> d]
    ELSE LET later == dups[k][2]
             m == MatchingRow(d, later)
         IN  IF m = 0 THEN DeleteLoop(dups, k + 1, fs, d)
             ELSE IF later \notin DOMAIN fs
                  THEN [ok |-> FALSE, files |-> fs, data |-> d]
                  ELSE DeleteLoop(dups, k + 1, Without(fs, later), RemoveRow(d, m))

\* The first number, were the count to start at zero.
FirstNumberZero == 1 - 1

\* i = 1 before the renaming loop and before the ledger is written.
FirstNumber == 1

\* A copy to the new name that leaves the old name in place.
RenamedKeepingSource(fs, src, dst) ==
    [n \in (DOMAIN fs) \cup {dst} |-> IF n = dst THEN fs[src] ELSE fs[n]]

\* os.rename(name, new_name): the target is replaced when it exists.
Renamed(fs, src, dst) ==
    [n \in ((DOMAIN fs) \ {src}) \cup {dst} |-> IF n = dst THEN fs[src] ELSE fs[n]]

\* The renaming loop from position k of the listing nm on.
RECURSIVE RenameLoop(_, _, _)
RenameLoop(fs, nm, k) ==
    IF k > Len(nm) THEN [ok |-> TRUE, files |-> fs]
    ELSE IF nm[k] \notin DOMAIN fs THEN [ok |-> FALSE, files |-> fs]
    ELSE RenameLoop(Renamed(fs, nm[k], Renumbered(k - 1 + FirstNumber, nm[k])), nm, k + 1)

\* file.write(f"{i}-{row.split('-', 1)[1]}") for every row of self.data.
RenumberedLedger(d) == [k \in 1..Len(d) |-> Renumbered(k - 1 + FirstNumber, d[k])]

(***************************************************************************)
(* clip_frames and flip                                                    *)
(***************************************************************************)
\* The clipping loop from position k of self.names on: imread, slice, imwrite.
\* A missing file reads as None and an empty slice cannot be written: both
\* raise, leaving the files clipped so far as they are.
RECURSIVE ClipLoop(_, _, _, _)
ClipLoop(fs, nm, k, r) ==
    IF k > Len(nm) THEN [ok |-> TRUE, files |-> fs]
    ELSE IF nm[k] \notin DOMAIN fs THEN [ok |-> FALSE, files |-> fs]
    ELSE LET clipped == Slice(fs[nm[k]], r)
         IN  IF IsEmpty(clipped) THEN [ok |-> FALSE, files |-> fs]
             ELSE ClipLoop([fs EXCEPT ![nm[k]] = clipped], nm, k + 1, r)

\* int(...) of the four inputs, then the loop.
ClipAll(fs, nm, r) ==
    IF ~r.ok THEN [ok |-> FALSE, files |-> fs] ELSE ClipLoop(fs, nm, 1, r)

\* The flipping loop: every file of self.names read, flipped and written.
RECURSIVE FlipLoop(_, _, _)
FlipLoop(fs, nm, k) ==
    IF k > Len(nm) THEN [ok |-> TRUE, files |-> fs]
    ELSE IF nm[k] \notin DOMAIN fs THEN [ok |-> FALSE, files |-> fs]
    ELSE FlipLoop([fs EXCEPT ![nm[k]] = Flip(fs[nm[k]])], nm, k + 1)

(***************************************************************************)
(* The recording directory before the program starts                       *)
(***************************************************************************)
\* "<k>-<timestamp>.png": the k-th frame, timestamps increasing.
FrameName(k) == [seq |-> k, ts |-> 10 * k]

\* The ledger row recorded with frame k; imu stands for the fields the
\* program never touches.
FrameRow(k, img) == [seq |-> k, ts |-> 10 * k, imu |-> k,
                     width |-> Width(img), height |-> Height(img),
                     scanh |-> 0, scanw |-> 0]

Directory(imgs) == [n \in {FrameName(k) : k \in 1..Len(imgs)} |-> imgs[n.seq]]
Ledger(imgs) == [k \in 1..Len(imgs) |-> FrameRow(k, imgs[k])]

\* A ledger that lost row k, and one where row k is written twice.
LedgerMissing(rows, k) == RemoveAt(rows, k)
LedgerDoubled(rows, k) ==
    [q \in 1..(Len(rows) + 1) |->
        IF q <= k THEN rows[q]
        ELSE IF q = k + 1 THEN [rows[k] EXCEPT !.imu = Len(rows) + 1]
        ELSE rows[q - 1]]

\* History kept for the handlers whose effect is compared with the state
\* they started from; NoSnapshot after the others.
Snapshot == [files |-> files, datatxt |-> datatxt, names |-> names,
             frames |-> frames, data |-> data, duplicates |-> duplicates]
NoSnapshot == [files |-> <<>>, datatxt |-> <<>>, names |-> <<>>,
               frames |-> <<>>, data |-> <<>>, duplicates |-> <<>>]

\* The state after __init__ has built the window, before the first event.
InitProgram ==
    /\ names = <<>>
    /\ frames = <<>>
    /\ data = <<>>
    /\ dataAsLists = FALSE
    /\ index = 0
    /\ duplicates = <<>>
    /\ enable_operations = FALSE
    /\ roi = DefaultRoi
    /\ reducedRoi = FALSE
    /\ pc = "idle"
    /\ last = "init"
    /\ pre = NoSnapshot

\* A recording as the layout describes it: N frames numbered 1..N and one
\* ledger row per frame, in the same order.
Init ==
    /\ \E n \in 0..MaxFrames : \E imgs \in [1..n -> Images] :
          /\ files = Directory(imgs)
          /\ datatxt = Ledger(imgs)
    /\ InitProgram

\* A recording of equally sized frames, one frame shorter at most, whose
\* ledger may have lost or doubled one row.
InitLoose ==
    /\ \E n \in 2..(MaxFrames - 1) : \E imgs \in [1..n -> UniformImages] :
          /\ files = Directory(imgs)
          /\ \/ datatxt = Ledger(imgs)
             \/ \E k \in 1..n : datatxt = LedgerMissing(Ledger(imgs), k)
             \/ \E k \in 1..n : datatxt = LedgerDoubled(Ledger(imgs), k)
    /\ InitProgram

(***************************************************************************)
(* The event loop: one event is read while pc = "idle"                     *)
(***************************************************************************)
\* '-INP-FILE-PATH-': load_frames, whatever the gate.
LoadEvent ==
    /\ pc = "idle"
    /\ pre' = NoSnapshot
    /\ last' = "load"
    /\ LoadFramesBody("idle", "crashed")
    /\ UNCHANGED <<files, datatxt, roi, reducedRoi>>

\* self.index after one navigate command, were it not wrapped round.
NavigatedUnwrapped(idx, n, up) == IF up THEN idx + 1 ELSE idx - 1

\* self.index after one navigate command, wrapped round at the limits.
Navigated(idx, n, up) ==
    LET moved == IF up THEN idx + 1 ELSE idx - 1
    IN  IF moved < 0 THEN n + moved
        ELSE IF moved > n - 1 THEN moved - n
        ELSE moved

\* '-NAV-UP-' / '-NAV-DOWN-'
NavigateEvent ==
    /\ pc = "idle"
    /\ enable_operations
    /\ \E up \in BOOLEAN : index' = Navigated(index, Len(frames), up)
    /\ UNCHANGED <<files, datatxt, names, frames, data, dataAsLists, duplicates,
                   enable_operations, roi, reducedRoi, pc, pre, last>>

\* Show Duplicates, Show Plot, and the events that only redraw the graph.
DisplayEvent ==
    /\ pc = "idle"
    /\ enable_operations
    /\ UNCHANGED vars

\* The user retypes the ROI inputs or toggles the Reduced ROI checkbox (the
\* checkbox is enabled by the first load).
EditInputs ==
    /\ pc = "idle"
    /\ \E r \in Rois : \E b \in BOOLEAN :
          /\ <<r, b>> # <<roi, reducedRoi>>
          /\ b # reducedRoi => enable_operations
          /\ roi' = r
          /\ reducedRoi' = b
    /\ last' = "edit"
    /\ UNCHANGED <<files, datatxt, names, frames, data, dataAsLists, index,
                   duplicates, enable_operations, pc, pre>>

\* '-BTN-DUPLICATE-CHECK-': check_for_duplicates, from the gate being closed
\* to it being opened again.  int() of a non-integer input raises before
\* data.txt is read; a comparison that raises ends the scan.
CheckEvent ==
    /\ pc = "idle"
    /\ enable_operations
    /\ pre' = Snapshot
    /\ last' = IF last \in {"check", "recheck"} THEN "recheck" ELSE "check"
    /\ IF ~roi.ok
       THEN /\ enable_operations' = FALSE
            /\ pc' = "crashed"
            /\ UNCHANGED <<data, dataAsLists, duplicates>>
       ELSE LET res == Detect(frames, names, CheckWindow, reducedRoi, roi, duplicates)
            IN  /\ data' = ReadLines(datatxt, data)
                /\ dataAsLists' = FALSE
                /\ duplicates' = res.dups
                /\ enable_operations' = res.ok
                /\ pc' = IF res.ok THEN "idle" ELSE "crashed"
    /\ UNCHANGED <<files, datatxt, names, frames, index, roi, reducedRoi>>

\* '-BTN-REMOVE-DUPLICATES-': remove_duplicates is entered only with
\* candidates and an open gate; it closes the gate first.
RemoveEvent ==
    /\ pc = "idle"
    /\ pre' = Snapshot
    /\ IF HasDuplicates(duplicates) /\ enable_operations
       THEN /\ enable_operations' = FALSE
            /\ pc' = IF HasDuplicates(duplicates) THEN "rm_delete" ELSE "rm_finish"
            /\ last' = "remove_begin"
       ELSE /\ last' = "remove_ignored"
            /\ UNCHANGED <<enable_operations, pc>>
    /\ UNCHANGED <<files, datatxt, names, frames, data, dataAsLists, index,
                   duplicates, roi, reducedRoi>>

\* The deletion loop.  A row of self.data that is a list has no split().
RemoveDelete ==
    /\ pc = "rm_delete"
    /\ IF dataAsLists /\ Len(data) > 0
       THEN /\ pc' = "crashed"
            /\ UNCHANGED <<files, data>>
       ELSE LET res == DeleteLoop(duplicates, 1, files, data)
            IN  /\ files' = res.files
                /\ data' = res.data
                /\ pc' = IF res.ok THEN "rm_rename" ELSE "crashed"
    /\ UNCHANGED <<datatxt, names, frames, dataAsLists, index, duplicates,
                   enable_operations, roi, reducedRoi, pre, last>>

\* The directory listed again and every png renamed to its position.
RemoveRename ==
    /\ pc = "rm_rename"
    /\ names' = ListPng(files)
    /\ LET res == RenameLoop(files, ListPng(files), 1)
       IN  /\ files' = res.files
           /\ pc' = IF res.ok THEN "rm_write" ELSE "crashed"
    /\ UNCHANGED <<datatxt, frames, data, dataAsLists, index, duplicates,
                   enable_operations, roi, reducedRoi, pre, last>>

\* data.txt written from self.data, renumbered.
RemoveWrite ==
    /\ pc = "rm_write"
    /\ datatxt' = RenumberedLedger(data)
    /\ pc' = "rm_finish"
    /\ last' = "remove"
    /\ UNCHANGED <<files, names, frames, data, dataAsLists, index, duplicates,
                   enable_operations, roi, reducedRoi, pre>>

\* self.enable_operations = True, before the reload.
RemoveFinish ==
    /\ pc = "rm_finish"
    /\ enable_operations' = TRUE
    /\ pc' = "rm_reload"
    /\ UNCHANGED <<files, datatxt, names, frames, data, dataAsLists, index,
                   duplicates, roi, reducedRoi, pre, last>>

\* self.load_frames(self.recording_path), the handler's last statement.
RemoveReload ==
    /\ pc = "rm_reload"
    /\ LoadFramesBody("idle", "crashed")
    /\ UNCHANGED <<files, datatxt, roi, reducedRoi, pre, last>>

\* '-BTN-CLIP-': clip_frames closes the gate and clips only a loaded recording.
ClipEvent ==
    /\ pc = "idle"
    /\ enable_operations
    /\ pre' = Snapshot
    /\ last' = "clip_begin"
    /\ enable_operations' = FALSE
    /\ pc' = IF Len(frames) > 0 THEN "clip_files" ELSE "clip_finish"
    /\ UNCHANGED <<files, datatxt, names, frames, data, dataAsLists, index,
                   duplicates, roi, reducedRoi>>

\* The inputs parsed and the files clipped on disk; an exception goes to the
\* handler's except clause and from there to its last statement.
ClipFiles ==
    /\ pc = "clip_files"
    /\ LET res == ClipAll(files, names, roi)
       IN  /\ files' = res.files
           /\ pc' = IF res.ok THEN "clip_reload" ELSE "clip_finish"
           /\ last' = IF res.ok THEN last ELSE "clip_failed"
    /\ UNCHANGED <<datatxt, names, frames, data, dataAsLists, index, duplicates,
                   enable_operations, roi, reducedRoi, pre>>

\* self.load_frames(self.recording_path) inside the try block.
ClipReload ==
    /\ pc = "clip_reload"
    /\ LoadFramesBody("clip_update", "clip_finish")
    /\ last' = IF LoadSucceeds(ListPng(files)) THEN last ELSE "clip_failed"
    /\ UNCHANGED <<files, datatxt, roi, reducedRoi, pre>>

\* self.update_data_file() inside the try block.
ClipUpdate ==
    /\ pc = "clip_update"
    /\ IF UpdateSucceeds
       THEN UpdateDataFileBody /\ last' = "clip"
       ELSE UNCHANGED <<data, dataAsLists, datatxt>> /\ last' = "clip_failed"
    /\ pc' = "clip_finish"
    /\ UNCHANGED <<files, names, frames, index, duplicates, enable_operations,
                   roi, reducedRoi, pre>>

\* self.enable_operations = True, the handler's last statement.
ClipFinish ==
    /\ pc = "clip_finish"
    /\ enable_operations' = TRUE
    /\ pc' = "idle"
    /\ UNCHANGED <<files, datatxt, names, frames, data, dataAsLists, index,
                   duplicates, roi, reducedRoi, pre, last>>

\* '-BTN-FLIP-': flip closes the gate.
FlipEvent ==
    /\ pc = "idle"
    /\ enable_operations
    /\ pre' = NoSnapshot
    /\ last' = "flip"
    /\ enable_operations' = FALSE
    /\ pc' = IF Len(names) > 0 THEN "flip_files" ELSE "flip_finish"
    /\ UNCHANGED <<files, datatxt, names, frames, data, dataAsLists, index,
                   duplicates, roi, reducedRoi>>

FlipFiles ==
    /\ pc = "flip_files"
    /\ LET res == FlipLoop(files, names, 1)
       IN  /\ files' = res.files
           /\ pc' = IF res.ok THEN "flip_reload" ELSE "crashed"
    /\ UNCHANGED <<datatxt, names, frames, data, dataAsLists, index, duplicates,
                   enable_operations, roi, reducedRoi, pre, last>>

FlipReload ==
    /\ pc = "flip_reload"
    /\ LoadFramesBody("flip_finish", "crashed")
    /\ UNCHANGED <<files, datatxt, roi, reducedRoi, pre, last>>

FlipFinish ==
    /\ pc = "flip_finish"
    /\ enable_operations' = TRUE
    /\ pc' = "idle"
    /\ UNCHANGED <<files, datatxt, names, frames, data, dataAsLists, index,
                   duplicates, roi, reducedRoi, pre, last>>

\* '-BTN-DATA-': update_data_file is called with the gate as it is.
UpdateDataEvent ==
    /\ pc = "idle"
    /\ enable_operations
    /\ pre' = NoSnapshot
    /\ last' = "update"
    /\ pc' = "ud_rewrite"
    /\ UNCHANGED <<files, datatxt, names, frames, data, dataAsLists, index,
                   duplicates, enable_operations, roi, reducedRoi>>

UpdateDataRewrite ==
    /\ pc = "ud_rewrite"
    /\ IF UpdateSucceeds
       THEN UpdateDataFileBody /\ pc' = "idle"
       ELSE UNCHANGED <<data, dataAsLists, datatxt>> /\ pc' = "crashed"
    /\ UNCHANGED <<files, names, frames, index, duplicates, enable_operations,
                   roi, reducedRoi, pre, last>>

Next ==
    \/ LoadEvent
    \/ NavigateEvent
    \/ DisplayEvent
    \/ EditInputs
    \/ CheckEvent
    \/ RemoveEvent
    \/ RemoveDelete
    \/ RemoveRename
    \/ RemoveWrite
    \/ RemoveFinish
    \/ RemoveReload
    \/ ClipEvent
    \/ ClipFiles
    \/ ClipReload
    \/ ClipUpdate
    \/ ClipFinish
    \/ FlipEvent
    \/ FlipFiles
    \/ FlipReload
    \/ FlipFinish
    \/ UpdateDataEvent
    \/ UpdateDataRewrite

Spec == Init /\ [][Next]_vars

SpecLoose == InitLoose /\ [][Next]_vars

\* The last frames of a longer recording: the files and rows of Directory
\* and Ledger with their numbers moved up by off.
DirectoryFrom(imgs, off) ==
    [n \in {[FrameName(k) EXCEPT !.seq = @ + off] : k \in 1..Len(imgs)}
        |-> imgs[n.seq - off]]
LedgerFrom(imgs, off) ==
    [k \in 1..Len(imgs) |-> [FrameRow(k, imgs[k]) EXCEPT !.seq = @ + off]]

\* A recording of equally sized frames numbered from 1, or from 9 so that
\* the numbers pass from one digit to two.
InitListing ==
    /\ \E n \in 2..(MaxFrames - 1) : \E imgs \in [1..n -> UniformImages] :
       \E off \in {0, 8} :
          /\ files = DirectoryFrom(imgs, off)
          /\ datatxt = LedgerFrom(imgs, off)
    /\ InitProgram

SpecListing == InitListing /\ [][Next]_vars

\* check_for_duplicates(window) called with any window up to MaxWindow, in
\* place of the default the event loop passes.
CheckWindowEvent ==
    /\ pc = "idle"
    /\ enable_operations
    /\ pre' = Snapshot
    /\ last' = IF last \in {"check", "recheck"} THEN "recheck" ELSE "check"
    /\ \E w \in 1..MaxWindow :
          IF ~roi.ok
          THEN /\ enable_operations' = FALSE
               /\ pc' = "crashed"
               /\ UNCHANGED <<data, dataAsLists, duplicates>>
          ELSE LET res == Detect(frames, names, w, reducedRoi, roi, duplicates)
               IN  /\ data' = ReadLines(datatxt, data)
                   /\ dataAsLists' = FALSE
                   /\ duplicates' = res.dups
                   /\ enable_operations' = res.ok
                   /\ pc' = IF res.ok THEN "idle" ELSE "crashed"
    /\ UNCHANGED <<files, datatxt, names, frames, index, roi, reducedRoi>>

\* Loading, detection with any window, and removal.
NextWindow ==
    \/ LoadEvent
    \/ CheckWindowEvent
    \/ RemoveEvent
    \/ RemoveDelete
    \/ RemoveRename
    \/ RemoveWrite
    \/ RemoveFinish
    \/ RemoveReload

SpecWindow == Init /\ [][NextWindow]_vars

\* The four clip inputs as any text the user can type: not an integer, or any
\* rectangle with corners on the grid of a frame.
ClipRois ==
    {RoiNoInt} \cup
    [ok : {TRUE}, top : 0..Height(ImgA), bottom : 0..Height(ImgA),
     left : 0..Width(ImgA), right : 0..Width(ImgA)]

\* Typing into '-INP-TOP-', '-INP-BOTTOM-', '-INP-LEFT-', '-INP-RIGHT-'.
EditClipInputs ==
    /\ pc = "idle"
    /\ \E r \in ClipRois : r # roi /\ roi' = r
    /\ last' = "edit"
    /\ UNCHANGED <<files, datatxt, names, frames, data, dataAsLists, index,
                   duplicates, enable_operations, reducedRoi, pc, pre>>

\* A recording of at least two frames, two frames shorter at most.
InitClip ==
    /\ \E n \in 2..(MaxFrames - 2) : \E imgs \in [1..n -> Images] :
          /\ files = Directory(imgs)
          /\ datatxt = Ledger(imgs)
    /\ InitProgram

\* Loading and clipping only, with every rectangle as input.
NextClip ==
    \/ LoadEvent
    \/ EditClipInputs
    \/ ClipEvent
    \/ ClipFiles
    \/ ClipReload
    \/ ClipUpdate
    \/ ClipFinish

SpecClip == InitClip /\ [][NextClip]_vars

(***************************************************************************)
(* Properties                                                              *)
(***************************************************************************)
\* A remove_duplicates call has written the ledger and nothing has been
\* dispatched since that changes the history.
RemoveCompleted == last = "remove"

\* Row k's leading field is the k-th png's name without extension, and there
\* is one row per png.
Corresponds(fs, rows) ==
    LET s == ListPng(fs)
    IN  /\ Len(rows) = Len(s)
        /\ \A k \in 1..Len(s) : RowStem(rows[k]) = NameStem(s[k])

\* The rows of d whose leading field is the later name of candidate k.
MatchesOf(d, dups, k) == {m \in 1..Len(d) : RowStem(d[m]) = NameStem(dups[k][2])}

\* Every candidate's later file matches exactly one row.
AllUniquelyMatched(d, dups) ==
    \A k \in 1..Len(dups) : Cardinality(MatchesOf(d, dups, k)) = 1

LaterNames(dups) == {dups[k][2] : k \in 1..Len(dups)}

\* A name or a row without its sequence number.
Unnumbered(x) == Renumbered(0, x)

\* C1: after remove_duplicates has completed on a non-empty candidate list,
\* the i-th png in natural order has sequence prefix i and the i-th row of
\* data.txt has leading identifier i, for every i up to the number of pngs.
C1_Renumbered ==
    RemoveCompleted =>
        LET s == ListPng(files)
        IN  \A i \in 1..Len(s) :
                /\ s[i].seq = i
                /\ i <= Len(datatxt)
                /\ datatxt[i].seq = i

\* C1 witness: a remove has completed and reloaded, and some surviving file
\* carries a number other than the one it was recorded with.
C1_Witness ==
    /\ RemoveCompleted
    /\ pc = "idle"
    /\ \E k \in 1..Len(names) : names[k].ts # 10 * names[k].seq

\* C2: if data.txt corresponded to the png files row by row when
\* remove_duplicates was called, it does so again when it has completed.
C2_Correspondence ==
    (RemoveCompleted /\ Corresponds(pre.files, pre.datatxt))
        => Corresponds(files, datatxt)

\* C2 witness: such a call has completed and deleted a frame.
C2_Witness ==
    /\ RemoveCompleted
    /\ pc = "idle"
    /\ Corresponds(pre.files, pre.datatxt)
    /\ Len(names) < Len(pre.names)

\* C3: when every candidate's later file matched a unique row, the reload
\* after remove_duplicates finds as many frames as before less the number of
\* candidates; the surviving files and rows are exactly the others, once
\* each, in their order and with their contents.
C3_CountAndSurvivors ==
    (/\ RemoveCompleted
     /\ pc \in {"idle", "crashed"}
     /\ AllUniquelyMatched(pre.data, pre.duplicates))
        => LET gone == LaterNames(pre.duplicates)
               kept == NatSorted(DOMAIN pre.files \ gone)
               IsKept(row) == \A g \in gone : RowStem(row) # NameStem(g)
               keptRows == SelectSeq(pre.datatxt, IsKept)
               now == ListPng(files)
           IN  /\ Len(frames) + Len(pre.duplicates) = Len(pre.frames)
               /\ Len(now) = Len(kept)
               /\ \A k \in 1..Len(now) :
                     /\ Unnumbered(now[k]) = Unnumbered(kept[k])
                     /\ files[now[k]] = pre.files[kept[k]]
               /\ Len(datatxt) = Len(keptRows)
               /\ \A k \in 1..Len(datatxt) :
                     Unnumbered(datatxt[k]) = Unnumbered(keptRows[k])

\* C3 witness: the call completed on a ledger that did not correspond to the
\* directory, every candidate still matching a unique row.
C3_Witness ==
    /\ RemoveCompleted
    /\ pc = "idle"
    /\ AllUniquelyMatched(pre.data, pre.duplicates)
    /\ ~Corresponds(pre.files, pre.datatxt)
    /\ Len(pre.duplicates) > 0

\* C4: remove_duplicates goes on past its deletion loop only if every
\* candidate's later file matched exactly one row; with no match or several
\* it fails and stops.
C4_ConsistencyError ==
    (pc \in {"rm_rename", "rm_write", "rm_finish", "rm_reload"} \/ RemoveCompleted)
        => AllUniquelyMatched(pre.data, pre.duplicates)

\* C5: a Remove Duplicates event with an empty candidate list deletes and
\* renames no png and leaves data.txt as it is.
C5_EmptyRemoveNoOp ==
    (last \in {"remove_ignored", "remove_begin", "remove"} /\ Len(pre.duplicates) = 0)
        => files = pre.files /\ datatxt = pre.datatxt

\* C5 witness: the event arrived with the gate open, an empty candidate list
\* and a ledger on disk.
C5_Witness ==
    /\ last = "remove_ignored"
    /\ pc = "idle"
    /\ enable_operations
    /\ Len(pre.duplicates) = 0
    /\ Len(datatxt) > 0

\* The single-channel grid check_for_duplicates compares for frame i.
Compared(i) == Prepared(frames[i], reducedRoi, roi)

\* The positions within the look-ahead window of frame i whose frame is
\* identical to frame i.
IdenticalAhead(i, w) ==
    {j \in (i + 1)..Len(frames) : j <= i + w /\ Compared(j) = Compared(i)}

Least(S) == CHOOSE j \in S : \A q \in S : j <= q

\* The position of a name in self.names.
PositionOf(name) == CHOOSE i \in 1..Len(names) : names[i] = name

\* A check_for_duplicates call has returned.
CheckReturned == last \in {"check", "recheck"} /\ pc = "idle"

\* C6: with window w, a candidate [names[i], names[j]] is recorded exactly
\* when some frame at most w positions after frame i is identical to it, j
\* being the first such position; one candidate at most per frame i, listed
\* by increasing i.
C6_WindowedFirstMatch ==
    CheckReturned =>
        /\ \A i \in 1..(Len(frames) - 1) :
              (IdenticalAhead(i, CheckWindow) # {}) <=>
                  (\E k \in 1..Len(duplicates) : duplicates[k][1] = names[i])
        /\ \A k \in 1..Len(duplicates) :
              /\ duplicates[k][1] \in Range(names)
              /\ LET i == PositionOf(duplicates[k][1])
                 IN  /\ i < Len(frames)
                     /\ IdenticalAhead(i, CheckWindow) # {}
                     /\ duplicates[k][2] = names[Least(IdenticalAhead(i, CheckWindow))]
        /\ \A k \in 1..(Len(duplicates) - 1) :
              PositionOf(duplicates[k][1]) < PositionOf(duplicates[k + 1][1])

\* C6 witness: four frames, the second and third identical and paired, the
\* first and fourth identical but more than the window apart.
C6_Witness ==
    /\ CheckReturned
    /\ Len(frames) = 4
    /\ Compared(1) = Compared(4)
    /\ duplicates = << <<names[2], names[3]>> >>

\* C7: a second check_for_duplicates on the same frames and inputs, right
\* after a first, yields the first one's candidate list.
C7_Idempotent ==
    (last = "recheck" /\ pc = "idle") => duplicates = pre.duplicates

\* C7 witness: the second pass has returned and candidates exist.
C7_Witness ==
    /\ last = "recheck"
    /\ pc = "idle"
    /\ Len(duplicates) > 0

MutatingSteps == {"rm_delete", "rm_rename", "rm_write", "rm_reload",
                  "clip_files", "clip_reload", "clip_update",
                  "flip_files", "flip_reload", "ud_rewrite"}

\* C9: no step of a mutating operation (delete, rename, crop, data.txt
\* rewrite, reload) runs while the gate is open.
C9_GateClosedWhileMutating ==
    pc \in MutatingSteps => ~enable_operations

\* C10: whenever the event loop waits with the gate open, the names and
\* frames in memory are those of the png files in the directory.
C10_MemoryMatchesDisk ==
    (pc = "idle" /\ enable_operations) =>
        /\ names = ListPng(files)
        /\ frames = LoadedFrames(files, ListPng(files))

\* A clip handler has been dispatched and no other event since.
ClipDispatched == last \in {"clip_begin", "clip_failed", "clip"}

\* The rectangle typed is empty: top >= bottom or left >= right.
EmptyRectangle ==
    roi.ok /\ (roi.top >= roi.bottom \/ roi.left >= roi.right)

Inside(r, img) ==
    /\ r.ok
    /\ 0 <= r.top /\ r.top < r.bottom /\ r.bottom <= Height(img)
    /\ 0 <= r.left /\ r.left < r.right /\ r.right <= Width(img)

\* The clip ended without error on a rectangle inside every frame.
ClipSucceededInside ==
    /\ last = "clip"
    /\ \A nm \in DOMAIN pre.files : Inside(roi, pre.files[nm])

\* C14: after a clip that succeeds with its rectangle inside the image,
\* every frame on disk and in memory is bottom-top high and right-left wide,
\* every row of data.txt carries that width and height and the scan height
\* and width typed by the user, and data.txt has as many rows as before,
\* each with its leading identifier unchanged.
C14_ClipDimensions ==
    ClipSucceededInside =>
        /\ \A nm \in DOMAIN files :
              /\ Height(files[nm]) = roi.bottom - roi.top
              /\ Width(files[nm]) = roi.right - roi.left
        /\ \A k \in 1..Len(frames) :
              /\ Height(frames[k]) = roi.bottom - roi.top
              /\ Width(frames[k]) = roi.right - roi.left
        /\ Len(datatxt) = Len(pre.datatxt)
        /\ \A k \in 1..Len(datatxt) :
              /\ datatxt[k].width = roi.right - roi.left
              /\ datatxt[k].height = roi.bottom - roi.top
              /\ datatxt[k].scanh = ScanHeightMm
              /\ datatxt[k].scanw = ScanWidthMm
              /\ RowStem(datatxt[k]) = RowStem(pre.datatxt[k])

\* A clip to a rectangle that is not square has succeeded.
C14_Witness ==
    /\ ClipSucceededInside
    /\ pc = "idle"
    /\ Len(datatxt) > 1
    /\ roi.bottom - roi.top # roi.right - roi.left

\* load_frames has just completed: as the load event, or as the reload of
\* remove_duplicates, clip_frames or flip, and no file was written since.
LoadCompleted ==
    \/ last = "load" /\ pc = "idle"
    \/ last = "remove" /\ pc = "idle"
    \/ pc = "clip_update"
    \/ pc = "flip_finish" /\ Len(names) > 0

\* C12: after every load that completes, frames and names have the same
\* length, frames[k] is the decoded image of the file names[k], names lists
\* every png of the directory, and names is in strictly increasing order of
\* the numeric prefix (10 after 9).
C12_FramesFollowNames ==
    LoadCompleted =>
        /\ Len(frames) = Len(names)
        /\ Range(names) = DOMAIN files
        /\ \A k \in 1..Len(names) : frames[k] = Gray2Rgb(files[names[k]])
        /\ \A k \in 1..(Len(names) - 1) : names[k].seq < names[k + 1].seq

\* A load has listed frame 10 right after frame 9.
C12_Witness ==
    /\ last = "load"
    /\ pc = "idle"
    /\ \E k \in 1..(Len(names) - 1) :
          names[k].seq = 9 /\ names[k + 1].seq = 10

Rest(x) == [f \in (DOMAIN x) \ {"seq"} |-> x[f]]

\* C15: the renumbering of remove_duplicates changes identifiers only.  Once
\* the files are renamed, the k-th png in natural order is the k-th file
\* listed before the renaming, with the rest of its name and its image as
\* they were; once data.txt is written, its k-th row is the k-th row left in
\* memory with everything after the sequence number as it was; the files
\* and rows left are in the order they had before the call.
C15_OnlyIdentifiersChange ==
    /\ (pc \in {"rm_write", "rm_finish", "rm_reload"}) =>
          LET now == ListPng(files)
              IsLeft(n) == n \in Range(names)
          IN  /\ Len(now) = Len(names)
              /\ \A k \in 1..Len(now) :
                    /\ Rest(now[k]) = Rest(names[k])
                    /\ names[k] \in DOMAIN pre.files
                    /\ files[now[k]] = pre.files[names[k]]
              /\ names = SelectSeq(pre.names, IsLeft)
    /\ (pc \in {"rm_finish", "rm_reload"}) =>
          LET IsLeft(row) == row \in Range(data)
          IN  /\ Len(datatxt) = Len(data)
              /\ \A k \in 1..Len(datatxt) : Rest(datatxt[k]) = Rest(data[k])
              /\ data = SelectSeq(pre.data, IsLeft)

\* The renumbering has renamed a file and rewritten its row: the last file
\* and the last row carry a number they did not have before.
C15_Witness ==
    /\ pc = "rm_reload"
    /\ Len(names) > 1
    /\ Len(data) = Len(names)
    /\ names[Len(names)].seq # Len(names)
    /\ data[Len(data)].seq # datatxt[Len(datatxt)].seq

\* C16: while candidates found by a detection are held and the event loop
\* is ready with the gate open, the in-memory ledger is the list of text
\* rows of data.txt as on disk; a remove dispatched on those candidates does
\* not fail in its deletion loop.
C16_LedgerUsableByRemove ==
    /\ (Len(duplicates) > 0 /\ pc = "idle" /\ enable_operations) =>
          (data = datatxt /\ ~dataAsLists)
    /\ (last = "remove_begin" /\ Len(pre.duplicates) > 0 /\ pre.data = pre.datatxt)
          => pc # "crashed"

\* C17: in the candidate list check_for_duplicates returns, whatever the
\* window, no file is the later element of two candidates; a remove on it
\* gets through its deletion loop, after which the directory holds as many
\* files fewer as there were candidates.
C17_LaterNamesDistinct ==
    /\ CheckReturned =>
          \A k \in 1..Len(duplicates) : \A m \in 1..Len(duplicates) :
              k # m => duplicates[k][2] # duplicates[m][2]
    /\ last = "remove_begin" => pc \in {"rm_delete", "rm_rename", "rm_write"}
    /\ pc = "rm_rename" =>
          Cardinality(DOMAIN files) + Len(duplicates) = Cardinality(DOMAIN pre.files)

\* Three identical frames in a row gave two candidates sharing the middle
\* frame, and the deletion loop has deleted both later files.
C17_Witness ==
    /\ pc = "rm_rename"
    /\ Len(duplicates) = 2
    /\ duplicates[1][2] = duplicates[2][1]
    /\ Cardinality(DOMAIN files) + 2 = Cardinality(DOMAIN pre.files)

\* Two png files hold identical frames under the comparison of detection.
SameFrame(x, y) ==
    Prepared(Gray2Rgb(x), reducedRoi, roi) = Prepared(Gray2Rgb(y), reducedRoi, roi)

\* C18: remove_duplicates never deletes the last copy of a frame.  After its
\* deletion loop every file deleted has an identical frame in a file still
\* there, and when the call has completed every deleted frame is identical
\* to a frame of the reloaded Frame Set.
C18_CopySurvives ==
    /\ pc = "rm_rename" =>
          \A g \in (DOMAIN pre.files) \ (DOMAIN files) :
              \E n \in DOMAIN files : SameFrame(files[n], pre.files[g])
    /\ (last = "remove" /\ pc = "idle") =>
          \A g \in LaterNames(pre.duplicates) :
              \E k \in 1..Len(frames) :
                  Prepared(frames[k], reducedRoi, roi)
                      = Prepared(Gray2Rgb(pre.files[g]), reducedRoi, roi)

\* A chain of three identical frames: the second was deleted as the later
\* file of the first candidate and is the earlier file of the second.
C18_Witness ==
    /\ last = "remove"
    /\ pc = "idle"
    /\ Len(pre.duplicates) = 2
    /\ pre.duplicates[1][2] = pre.duplicates[2][1]
    /\ Len(frames) + 2 = Len(pre.frames)

\* The renames from position k of the listing nm on, in the directory fs as
\* it is at that moment: each target is the file's own name or a free name.
RECURSIVE TargetsFree(_, _, _)
TargetsFree(fs, nm, k) ==
    IF k > Len(nm) THEN TRUE
    ELSE LET dst == Renumbered(k - 1 + FirstNumber, nm[k])
         IN  /\ dst = nm[k] \/ dst \notin DOMAIN fs
             /\ TargetsFree(Renamed(fs, nm[k], dst), nm, k + 1)

\* The files were numbered 1..N when remove_duplicates was called.
WasContiguous ==
    /\ Range(pre.names) = DOMAIN pre.files
    /\ \A k \in 1..Len(pre.names) : pre.names[k].seq = k

\* C19: on a directory numbered 1..N before the deletions, every rename of
\* the renumbering pass goes to the file's own name or to a name no other
\* file holds at that moment; after the pass there are as many png files as
\* before it and every frame listed before it is still there.
C19_RenameTargetsFree ==
    /\ (pc = "rm_rename" /\ WasContiguous) =>
          TargetsFree(files, ListPng(files), 1)
    /\ (pc = "rm_write" /\ WasContiguous) =>
          /\ Cardinality(DOMAIN files) = Len(names)
          /\ \A k \in 1..Len(names) :
                \E n \in DOMAIN files :
                    n.ts = names[k].ts /\ files[n] = pre.files[names[k]]

\* The pass has renamed a file to the number of a deleted one, and another
\* file kept its own name.
C19_Witness ==
    /\ pc = "rm_write"
    /\ WasContiguous
    /\ \E k \in 1..Len(names) : names[k] \notin DOMAIN files
    /\ \E k \in 1..Len(names) : names[k] \in DOMAIN files
    /\ \E n \in DOMAIN files : \E g \in LaterNames(duplicates) : n.seq = g.seq

\* The event loop is about to dispatch an event and the gate is open.
DispatchOpen == pc = "idle" /\ enable_operations

\* The step runs load_frames to its end: the load event or a reload.
LoadStep ==
    /\ \/ pc = "idle" /\ last # "load" /\ last' = "load"
       \/ pc \in {"rm_reload", "clip_reload", "flip_reload"}
    /\ pc' # "crashed"
    /\ LoadSucceeds(names')

\* C20: whenever the event loop can dispatch with the gate open, the Frame
\* Set is not empty and 0 <= index < len(frames); a navigate command moves
\* the index by one, from the last frame to the first and from the first to
\* the last; every load or reload that completes leaves the index at 0.
C20_IndexInRange ==
    /\ [](DispatchOpen => (Len(frames) > 0 /\ 0 <= index /\ index < Len(frames)))
    /\ [][NavigateEvent =>
            \/ index' = (index + 1) % Len(frames)
            \/ index' = (index + Len(frames) - 1) % Len(frames)]_vars
    /\ [][LoadStep => index' = 0]_vars

\* After a remove has shrunk the Frame Set and reloaded it, a navigate
\* command has gone round from the first frame to the last.
C20_Witness ==
    /\ last = "remove"
    /\ DispatchOpen
    /\ Len(frames) < Len(pre.frames)
    /\ Len(frames) > 2
    /\ index = Len(frames) - 1
====
